---- MODULE Spec2Model ----
(***************************************************************************)
(* Model of app/main.py: InternetChecker (check_url, check_all_services,   *)
(* analyze_results, run_continuous_check).                                 *)
(*                                                                         *)
(* The program's message strings are Russian; string literals here are     *)
(* ASCII renderings of them, one per source literal, given next to the     *)
(* line that holds the original.  The marks U+2713 / U+2717 are rendered   *)
(* "[v]" / "[x]".  Python's None is the sentinel None below.               *)
(***************************************************************************)
EXTENDS Integers, Sequences, FiniteSets, TLC

VARIABLES
    telegram_bot_token, \* self.telegram_bot_token
    check_interval,     \* self.check_interval
    urls,               \* self.urls
    pc,                 \* position of run_continuous_check (or of the direct caller)
    cycle,              \* number of loop iterations started
    results,            \* the dict being built / returned by check_all_services (insertion order)
    logIdx,             \* position of the result-logging for loop
    verdict,            \* (internet_ok, diagnosis) of this iteration, <<>> before analyze_results
    log,                \* lines handed to logging since the latest cycle-start marker
    gets,               \* urls session.get was called with since the latest cycle-start marker
    lastCall,           \* the most recent check_url invocation and what it did
    escaped,            \* class of the exception that reached run_continuous_check's handlers
    calls               \* number of direct check_url calls made (direct-call specification)

vars == <<telegram_bot_token, check_interval, urls, pc, cycle, results, logIdx,
          verdict, log, gets, lastCall, escaped, calls>>

(* ------------------------------ bounds -------------------------------- *)
MaxCycles == 2
MaxCalls == 4

(* --------------------------- value domains ---------------------------- *)
None == "<None>"
Truthy(s) == s # None /\ s # ""

Tokens == {None, "", "123:ABC"}
Intervals == {-1, 60}
Statuses == {200, 403}
ExcMsg == "boom"

\* Exception classes session.get / time.sleep can raise, with the classes each is an instance of.
ExcClasses == {"ReadTimeout", "ConnectTimeout", "ConnectionError", "TooManyRedirects",
               "ValueError", "KeyboardInterrupt"}
Mro(c) ==
    CASE c = "ReadTimeout" -> {"ReadTimeout", "Timeout", "RequestException", "Exception", "BaseException"}
      [] c = "ConnectTimeout" -> {"ConnectTimeout", "ConnectionError", "Timeout", "RequestException", "Exception", "BaseException"}
      [] c = "ConnectionError" -> {"ConnectionError", "RequestException", "Exception", "BaseException"}
      [] c = "TooManyRedirects" -> {"TooManyRedirects", "RequestException", "Exception", "BaseException"}
      [] c = "ValueError" -> {"ValueError", "Exception", "BaseException"}
      [] c = "KeyboardInterrupt" -> {"KeyboardInterrupt", "BaseException"}
IsInstance(c, cls) == cls \in Mro(c)

\* What one session.get(url, timeout=...) can do: answer with a status, or raise.
Outcomes ==
    [kind : {"status"}, code : Statuses, exc : {"-"}, msg : {""}]
    \cup [kind : {"raise"}, code : {0}, exc : ExcClasses, msg : {ExcMsg}]

(* ------------------------------ __init__ ------------------------------ *)
\* mutant: the telegram url is built whether or not a token was given
urls_always(token) ==
    [google |-> "https://www.google.com",
     yandex |-> "https://ya.ru",
     telegram |-> "https://api.telegram.org/bot"
                  \o (IF token = None THEN "None" ELSE token) \o "/getMe"]

make_urls(token) ==
    [google |-> "https://www.google.com",
     yandex |-> "https://ya.ru",
     telegram |-> IF Truthy(token)
                  THEN "https://api.telegram.org/bot" \o token \o "/getMe"
                  ELSE None]

(* ------------------------------ check_url ----------------------------- *)
Returned(ok, detail, g) == [raised |-> FALSE, exc |-> "-", ret |-> <<ok, detail>>, gets |-> g]
Raised(c, g) == [raised |-> TRUE, exc |-> c, ret |-> <<>>, gets |-> g]

\* mutant: the final "except Exception" clause is missing
try_get_no_catch_all(url, o, g) ==
    IF o.kind = "status"
    THEN IF o.code = 200
         THEN Returned(TRUE, "Success", g)
         ELSE Returned(FALSE, "HTTP " \o ToString(o.code), g)
    ELSE IF IsInstance(o.exc, "Timeout")
         THEN Returned(FALSE, "Timeout", g)
    ELSE IF IsInstance(o.exc, "ConnectionError")
         THEN Returned(FALSE, "Connection error", g)
    ELSE IF IsInstance(o.exc, "RequestException")
         THEN Returned(FALSE, "Request error: " \o o.msg, g)
    ELSE Raised(o.exc, g)

\* the try body and its except clauses, in source order
try_get(url, o, g) ==
    IF o.kind = "status"
    THEN IF o.code = 200
         THEN Returned(TRUE, "Success", g)                          \* "Успешно"
         ELSE Returned(FALSE, "HTTP " \o ToString(o.code), g)
    ELSE IF IsInstance(o.exc, "Timeout")
         THEN Returned(FALSE, "Timeout", g)                         \* "Таймаут"
    ELSE IF IsInstance(o.exc, "ConnectionError")
         THEN Returned(FALSE, "Connection error", g)                \* "Ошибка соединения"
    ELSE IF IsInstance(o.exc, "RequestException")
         THEN Returned(FALSE, "Request error: " \o o.msg, g)        \* "Ошибка запроса: "
    ELSE IF IsInstance(o.exc, "Exception")
         THEN Returned(FALSE, "Unexpected error: " \o o.msg, g)     \* "Неожиданная ошибка: "
    ELSE Raised(o.exc, g)

\* mutant: no test of the url before the request
check_url_no_guard(url, name, o) == try_get(url, o, <<url>>)

\* mutant: one more attempt after a failed one
check_url_retry(url, name, o) ==
    IF ~Truthy(url) THEN Returned(FALSE, "URL not configured", <<>>)
    ELSE IF o.kind = "status" /\ o.code = 200 THEN try_get(url, o, <<url>>)
    ELSE try_get(url, o, <<url, url>>)

check_url(url, name, o) ==
    IF ~Truthy(url)
    THEN Returned(FALSE, "URL not configured", <<>>)                \* "URL не настроен"
    ELSE try_get(url, o, <<url>>)

(* --------------------------- analyze_results -------------------------- *)
\* a dict is a sequence of <<key, value>> in insertion order
Keys(d) == [i \in DOMAIN d |-> d[i][1]]
Has(d, k) == \E i \in DOMAIN d : d[i][1] = k
Get(d, k) == d[CHOOSE i \in DOMAIN d : d[i][1] = k][2]
Put(d, k, v) == Append(d, <<k, v>>)

RECURSIVE Join(_, _)
Join(sep, parts) ==
    IF parts = <<>> THEN ""
    ELSE IF Len(parts) = 1 THEN parts[1]
    ELSE parts[1] \o sep \o Join(sep, Tail(parts))

RECURSIVE failed_services(_)
failed_services(d) ==
    IF d = <<>> THEN <<>>
    ELSE LET service == d[1][1]
             success == d[1][2][1]
             error == d[1][2][2]
         IN  IF ~success
             THEN <<service \o ": " \o error>> \o failed_services(Tail(d))
             ELSE failed_services(Tail(d))

successful_checks(d) == Cardinality({i \in DOMAIN d : d[i][2][1]})

telegram_only(d) ==
    /\ Has(d, "telegram")
    /\ ~Get(d, "telegram")[1]
    /\ \A i \in DOMAIN d : d[i][1] # "telegram" => d[i][2][1]

\* mutant: a single success is enough
analyze_results_one(d) ==
    IF successful_checks(d) >= 1
    THEN <<TRUE, "Internet available">>
    ELSE <<FALSE, "Internet problems. Errors: " \o Join(", ", failed_services(d))>>

\* mutant: every entry is listed, not only the failed ones
analyze_results_all(d) ==
    IF successful_checks(d) >= 2
    THEN <<TRUE, "Internet available">>
    ELSE <<FALSE, "Internet problems. Errors: "
                  \o Join(", ", [i \in DOMAIN d |-> d[i][1] \o ": " \o d[i][2][2]])>>

\* mutant: the telegram-only test is made before the threshold test
analyze_results_tg_first(d) ==
    IF telegram_only(d)
    THEN <<TRUE, "Internet available, but Telegram API has issues">>
    ELSE IF successful_checks(d) >= 2
    THEN <<TRUE, "Internet available">>
    ELSE <<FALSE, "Internet problems. Errors: " \o Join(", ", failed_services(d))>>

analyze_results(d) ==
    LET total_checks == Len(d)
        threshold == IF total_checks = 2 THEN 2 ELSE 2
    IN  IF successful_checks(d) >= threshold
        THEN <<TRUE, "Internet available">>                          \* "Интернет доступен"
        ELSE IF telegram_only(d)
             THEN <<TRUE, "Internet available, but Telegram API has issues">>
             ELSE <<FALSE, "Internet problems. Errors: "             \* "Проблемы с интернетом. Ошибки: "
                           \o Join(", ", failed_services(d))>>

(* ------------------------------ logging ------------------------------- *)
Line(level, kind, text) == [level |-> level, kind |-> kind, text |-> text]

\* mutant: the mark does not follow the entry's success
ResultLine_fixed_mark(service, r) ==
    Line("INFO", "result", service \o ": " \o "[v]" \o " " \o r[2])

ResultLine(service, r) ==
    Line("INFO", "result", service \o ": " \o (IF r[1] THEN "[v]" ELSE "[x]") \o " " \o r[2])

VerdictLine(v) ==
    IF v[1] THEN Line("INFO", "verdict", "RESULT: " \o v[2])         \* "РЕЗУЛЬТАТ: "
    ELSE Line("ERROR", "verdict", "RESULT: " \o v[2])

CycleLine == Line("INFO", "cycle", "--- Check at <timestamp> ---")   \* "--- Проверка в ... ---"

\* mutant: every exception is reported as a critical error
ExitLine_all_critical(c, msg) == Line("ERROR", "critical", "Critical error: " \o msg)

\* the except clauses of run_continuous_check
ExitLine(c, msg) ==
    IF IsInstance(c, "KeyboardInterrupt")
    THEN Line("INFO", "stop", "Monitoring stopped by user")          \* "Мониторинг остановлен пользователем"
    ELSE Line("ERROR", "critical", "Critical error: " \o msg)        \* "Критическая ошибка: "

NoOutcome == [kind |-> "none", code |-> 0, exc |-> "-", msg |-> ""]
NoCall == [url |-> "-", name |-> "-", outcome |-> NoOutcome, raised |-> FALSE, exc |-> "-", ret |-> <<>>]
CallOf(url, name, o, r) ==
    [url |-> url, name |-> name, outcome |-> o, raised |-> r.raised, exc |-> r.exc, ret |-> r.ret]

InLoop == {"loop", "google", "yandex", "telegram", "log", "analyze", "sleep"}

(* ------------------------------- Init --------------------------------- *)
Init ==
    /\ telegram_bot_token \in Tokens
    /\ check_interval \in Intervals
    /\ urls = make_urls(telegram_bot_token)
    /\ pc = "start"
    /\ cycle = 0
    /\ results = <<>>
    /\ logIdx = 0
    /\ verdict = <<>>
    /\ log = <<>>
    /\ gets = <<>>
    /\ lastCall = NoCall
    /\ escaped = "-"
    /\ calls = 0

config == <<telegram_bot_token, check_interval, urls, calls>>

(* ------------------------ run_continuous_check ------------------------ *)
\* an exception reaches the try statement of run_continuous_check
Exit(c, msg) ==
    /\ pc' = "stopped"
    /\ escaped' = c
    /\ log' = Append(log, ExitLine(c, msg))

\* the three logging calls before the try statement
Startup ==
    /\ pc = "start"
    /\ log' = <<Line("INFO", "start", "Starting internet monitoring..."),
                Line("INFO", "interval",
                     "Check interval: " \o ToString(check_interval) \o " seconds")>>
               \o (IF ~Truthy(urls.telegram)
                   THEN <<Line("WARNING", "warn",
                               "Telegram bot token not given. Checking only Google and Yandex")>>
                   ELSE <<>>)
    /\ pc' = "loop"
    /\ UNCHANGED <<config, cycle, results, logIdx, verdict, gets, lastCall, escaped>>

\* a KeyboardInterrupt before the try statement is not handled by it
InterruptAtStartup ==
    /\ pc = "start"
    /\ pc' = "crashed"
    /\ escaped' = "KeyboardInterrupt"
    /\ UNCHANGED <<config, cycle, results, logIdx, verdict, log, gets, lastCall>>

\* top of the while loop: the cycle-start marker
CycleStart ==
    /\ pc = "loop"
    /\ cycle < MaxCycles
    /\ cycle' = cycle + 1
    /\ log' = <<CycleLine>>
    /\ gets' = <<>>
    /\ verdict' = <<>>
    /\ pc' = "google"
    /\ UNCHANGED <<config, results, logIdx, lastCall, escaped>>

\* one results[key] = self.check_url(self.urls[key], name) of check_all_services
Probe(key, name, base, next) ==
    \E o \in Outcomes :
        LET r == check_url(urls[key], name, o) IN
        /\ gets' = gets \o r.gets
        /\ lastCall' = CallOf(urls[key], name, o, r)
        /\ IF r.raised
           THEN /\ Exit(r.exc, o.msg)
                /\ UNCHANGED <<results, logIdx>>
           ELSE /\ results' = Put(base, key, r.ret)
                /\ pc' = next
                /\ logIdx' = IF next = "log" THEN 1 ELSE logIdx
                /\ UNCHANGED <<log, escaped>>
        /\ UNCHANGED <<config, cycle, verdict>>

ProbeGoogle == pc = "google" /\ Probe("google", "Google", <<>>, "yandex")

ProbeYandex == pc = "yandex" /\ Probe("yandex", "Yandex", results, "telegram")

ProbeTelegram ==
    /\ pc = "telegram"
    /\ Truthy(urls.telegram)
    /\ Probe("telegram", "Telegram API", results, "log")

SkipTelegram ==
    /\ pc = "telegram"
    /\ ~Truthy(urls.telegram)
    /\ pc' = "log"
    /\ logIdx' = 1
    /\ UNCHANGED <<config, cycle, results, verdict, log, gets, lastCall, escaped>>

\* one iteration of the for loop over results.items()
LogResult ==
    /\ pc = "log"
    /\ logIdx <= Len(results)
    /\ log' = Append(log, ResultLine(results[logIdx][1], results[logIdx][2]))
    /\ logIdx' = logIdx + 1
    /\ pc' = IF logIdx = Len(results) THEN "analyze" ELSE "log"
    /\ UNCHANGED <<config, cycle, results, verdict, gets, lastCall, escaped>>

Analyze ==
    /\ pc = "analyze"
    /\ verdict' = analyze_results(results)
    /\ log' = Append(log, VerdictLine(verdict'))
    /\ pc' = "sleep"
    /\ UNCHANGED <<config, cycle, results, logIdx, gets, lastCall, escaped>>

\* time.sleep raises ValueError on a negative argument
Sleep ==
    /\ pc = "sleep"
    /\ IF check_interval < 0
       THEN Exit("ValueError", "sleep length must be non-negative")
       ELSE pc' = "loop" /\ UNCHANGED <<log, escaped>>
    /\ UNCHANGED <<config, cycle, results, logIdx, verdict, gets, lastCall>>

\* Ctrl-C between or inside any two steps of the loop body
Interrupt ==
    /\ pc \in InLoop
    /\ Exit("KeyboardInterrupt", "")
    /\ UNCHANGED <<config, cycle, results, logIdx, verdict, gets, lastCall>>

Next ==
    \/ Startup
    \/ InterruptAtStartup
    \/ CycleStart
    \/ ProbeGoogle
    \/ ProbeYandex
    \/ ProbeTelegram
    \/ SkipTelegram
    \/ LogResult
    \/ Analyze
    \/ Sleep
    \/ Interrupt

Spec == Init /\ [][Next]_vars

\* the loop body is one sequential thread: it keeps running while it has a step to take
LiveSpec == Spec /\ WF_vars(Next)

(* ------------------- check_url called on its own ---------------------- *)
DirectUrls == {None, "", "https://www.google.com"}

DirectInit ==
    /\ telegram_bot_token \in Tokens
    /\ check_interval \in Intervals
    /\ urls = make_urls(telegram_bot_token)
    /\ pc = "direct"
    /\ cycle = 0
    /\ results = <<>>
    /\ logIdx = 0
    /\ verdict = <<>>
    /\ log = <<>>
    /\ gets = <<>>
    /\ lastCall = NoCall
    /\ escaped = "-"
    /\ calls = 0

CallCheckUrl ==
    /\ pc = "direct"
    /\ calls < MaxCalls
    /\ \E url \in DirectUrls, o \in Outcomes :
           LET r == check_url(url, "service", o) IN
           /\ gets' = gets \o r.gets
           /\ lastCall' = CallOf(url, "service", o, r)
    /\ calls' = calls + 1
    /\ UNCHANGED <<telegram_bot_token, check_interval, urls, pc, cycle, results,
                   logIdx, verdict, log, escaped>>

DirectNext == CallCheckUrl

DirectSpec == DirectInit /\ [][DirectNext]_vars

(* ============================ properties ============================== *)
SuccessCount(d) == Len(SelectSeq(d, LAMBDA e : e[2][1]))
TokenGiven == telegram_bot_token # None /\ telegram_bot_token # ""
TelegramFailedAlone ==
    /\ Len(results) = 3
    /\ results[1][2][1] /\ results[2][2][1]
    /\ results[3][1] = "telegram" /\ ~results[3][2][1]

\* C1: whenever a cycle has analysed its results, internet_ok is true exactly when at
\* least two entries succeeded; with two entries, exactly when both succeeded.
C1Theorem ==
    verdict # <<>> =>
        /\ verdict[1] <=> (SuccessCount(results) >= 2)
        /\ Len(results) = 2 => (verdict[1] <=> (results[1][2][1] /\ results[2][2][1]))

C1Witness ==
    /\ verdict # <<>> /\ Len(results) = 3
    /\ ~results[1][2][1] /\ results[2][2][1] /\ results[3][2][1]
    /\ verdict[1]

RECURSIVE CommaList(_)
CommaList(es) ==
    IF Len(es) = 0 THEN ""
    ELSE IF Len(es) = 1 THEN es[1][1] \o ": " \o es[1][2][2]
    ELSE CommaList(SubSeq(es, 1, Len(es) - 1)) \o ", "
         \o es[Len(es)][1] \o ": " \o es[Len(es)][2][2]

\* C2: with fewer than two successes the verdict is (False, prefix + the ", "-joined
\* "<name>: <detail>" of exactly the failed entries, in the results' order).
C2Theorem ==
    (verdict # <<>> /\ SuccessCount(results) < 2) =>
        verdict = <<FALSE, "Internet problems. Errors: "
                           \o CommaList(SelectSeq(results, LAMBDA e : ~e[2][1]))>>

C2Witness ==
    /\ verdict = <<FALSE, "Internet problems. Errors: google: Timeout, telegram: HTTP 403">>
    /\ Len(results) = 3
    /\ results[2][2][1]

\* C3: with at least two successes the diagnosis is exactly "Internet available",
\* also when the telegram entry is the one that failed.
C3Theorem ==
    (verdict # <<>> /\ SuccessCount(results) >= 2) => verdict[2] = "Internet available"

C3Witness ==
    /\ TelegramFailedAlone
    /\ results[3][2][2] = "HTTP 403"
    /\ verdict = <<TRUE, "Internet available">>

\* C4: with three entries, telegram failed and google and yandex succeeded, the verdict
\* is (True, "Internet available, but Telegram API has issues").
C4Claim ==
    (verdict # <<>> /\ TelegramFailedAlone) =>
        verdict = <<TRUE, "Internet available, but Telegram API has issues">>

\* C5: the dict check_all_services returns has the keys google, yandex, and telegram
\* exactly when a non-empty token was given; telegram is never a key otherwise.
C5Theorem ==
    /\ pc \in {"log", "analyze", "sleep"} =>
          /\ Keys(results) = IF TokenGiven THEN <<"google", "yandex", "telegram">>
                             ELSE <<"google", "yandex">>
          /\ Len(results) = IF TokenGiven THEN 3 ELSE 2
    /\ ~TokenGiven => ~Has(results, "telegram")

C5Witness ==
    /\ pc = "sleep"
    /\ telegram_bot_token = ""
    /\ Keys(results) = <<"google", "yandex">>

\* C6: a check_url call with an absent or empty url returns (False, "URL not
\* configured") and leaves the sequence of issued GETs as it was.
C6Theorem ==
    [][(calls' = calls + 1 /\ ~Truthy(lastCall'.url)) =>
          /\ ~lastCall'.raised
          /\ lastCall'.ret = <<FALSE, "URL not configured">>
          /\ gets' = gets]_vars

C6Witness ==
    /\ calls >= 2
    /\ lastCall.url = ""
    /\ lastCall.ret = <<FALSE, "URL not configured">>
    /\ Len(gets) = calls - 1

ExpectedRet(o) ==
    IF o.kind = "status"
    THEN IF o.code = 200 THEN <<TRUE, "Success">> ELSE <<FALSE, "HTTP " \o ToString(o.code)>>
    ELSE CASE o.exc \in {"ReadTimeout", "ConnectTimeout"} -> <<FALSE, "Timeout">>
           [] o.exc = "ConnectionError" -> <<FALSE, "Connection error">>
           [] o.exc = "TooManyRedirects" -> <<FALSE, "Request error: " \o o.msg>>
           [] o.exc = "ValueError" -> <<FALSE, "Unexpected error: " \o o.msg>>

C7Returns ==
    (lastCall # NoCall /\ lastCall.outcome.exc # "KeyboardInterrupt") =>
        /\ ~lastCall.raised
        /\ lastCall.ret = ExpectedRet(lastCall.outcome)

C7NoAbort ==
    (gets' # gets /\ gets' # <<>> /\ lastCall'.outcome.exc # "KeyboardInterrupt") =>
        /\ pc' \in {"yandex", "telegram", "log"}
        /\ Len(results') = Len(gets')
        /\ results'[Len(results')][2] = lastCall'.ret

\* C7: for a status, a timeout, a connection failure, another request fault or any other
\* Exception, check_url returns (success only for 200, else the detail of the class) and
\* does not raise; the cycle goes on to the next endpoint and, unless the user
\* interrupts it, reaches its verdict.
C7Theorem ==
    /\ []C7Returns
    /\ [][C7NoAbort]_vars
    /\ (pc \in {"google", "yandex", "telegram", "log", "analyze"})
           ~> (verdict # <<>> \/ escaped = "KeyboardInterrupt")

C7Witness ==
    /\ pc = "sleep"
    /\ Len(results) = 3
    /\ results[1][2] = <<FALSE, "Unexpected error: boom">>
    /\ results[2][2] = <<FALSE, "Timeout">>
    /\ results[3][2] = <<FALSE, "HTTP 403">>
    /\ verdict # <<>>

C8Result(e) ==
    [level |-> "INFO", kind |-> "result",
     text |-> e[1] \o ": " \o (IF e[2][1] THEN "[v]" ELSE "[x]") \o " " \o e[2][2]]

C8Body == IF pc = "stopped" THEN SubSeq(log, 1, Len(log) - 1) ELSE log

C8Shape(k, v) ==
    /\ Len(C8Body) = 1 + k + (IF v THEN 1 ELSE 0)
    /\ C8Body[1].kind = "cycle"
    /\ \A i \in 1..k : C8Body[1 + i] = C8Result(results[i])
    /\ v => /\ k = Len(results)
            /\ verdict # <<>>
            /\ C8Body[k + 2].kind = "verdict"
            /\ C8Body[k + 2].level = (IF verdict[1] THEN "INFO" ELSE "ERROR")

C8Order ==
    cycle >= 1 =>
        /\ \E k \in 0..Len(results), v \in BOOLEAN : C8Shape(k, v)
        /\ pc \in {"google", "yandex", "telegram"} => C8Shape(0, FALSE)
        /\ pc = "log" => C8Shape(logIdx - 1, FALSE)
        /\ pc = "analyze" => C8Shape(Len(results), FALSE)
        /\ pc \in {"sleep", "loop"} => C8Shape(Len(results), TRUE)

C8Marker ==
    cycle' # cycle =>
        /\ log' = <<CycleLine>>
        /\ cycle = 0 \/ log[Len(log)].kind = "verdict"

\* C8: the lines of a cycle are the cycle-start marker, then one result line per entry
\* of the results in order (success mark iff the entry succeeded), then one verdict line
\* (info iff internet_ok, else error); the next marker follows a verdict line.
C8Theorem == []C8Order /\ [][C8Marker]_vars

C8Witness ==
    /\ cycle = 2
    /\ pc = "sleep"
    /\ Len(log) = 5
    /\ log[2].text = "google: [x] HTTP 403"
    /\ log[5].level = "ERROR"

C9Expected ==
    <<urls.google, urls.yandex>> \o (IF Truthy(urls.telegram) THEN <<urls.telegram>> ELSE <<>>)

\* C9: the GETs of a cycle go to google, yandex, then telegram if configured, one each,
\* whatever the earlier outcomes; when check_all_services has returned there are as
\* many GETs as entries.
C9Theorem ==
    /\ Len(gets) <= Len(C9Expected)
    /\ gets = SubSeq(C9Expected, 1, Len(gets))
    /\ pc = "yandex" => Len(gets) = 1
    /\ pc = "telegram" => Len(gets) = 2
    /\ pc \in {"log", "analyze", "sleep"} => (gets = C9Expected /\ Len(gets) = Len(results))

C9Witness ==
    /\ pc = "sleep"
    /\ Len(gets) = 3
    /\ results[1][2] = <<FALSE, "Timeout">>
    /\ results[2][2] = <<FALSE, "Connection error">>

C10Count(kind) == Cardinality({i \in DOMAIN log : log[i].kind = kind})

C10Stopped ==
    pc = "stopped" =>
        IF escaped = "KeyboardInterrupt"
        THEN /\ log[Len(log)] = [level |-> "INFO", kind |-> "stop",
                                 text |-> "Monitoring stopped by user"]
             /\ C10Count("stop") = 1
             /\ C10Count("critical") = 0
        ELSE /\ escaped # "-"
             /\ log[Len(log)].level = "ERROR"
             /\ log[Len(log)].kind = "critical"
             /\ C10Count("critical") = 1
             /\ C10Count("stop") = 0

C10Step ==
    /\ pc = "stopped" => UNCHANGED vars
    /\ (pc \in InLoop /\ pc' \notin InLoop) =>
          (pc' = "stopped" /\ escaped' # "-" /\ Len(log') = Len(log) + 1)

\* C10: the loop is left only with an exception in hand; a KeyboardInterrupt gives one
\* info-level stop line and no critical line, any other exception one error-level
\* critical line; nothing happens after either.
C10Theorem == []C10Stopped /\ [][C10Step]_vars

C10Witness ==
    /\ pc = "stopped"
    /\ escaped = "KeyboardInterrupt"
    /\ lastCall.raised
    /\ Len(gets) = 2
    /\ log[Len(log)].kind = "stop"

====
